---- MODULE Spec2Model ----
(***************************************************************************)
(* Model of the n8n service lifecycle controller (src/n8n_controller.py):  *)
(* start_n8n, stop_n8n, use_n8n_workflow and the N8NBatchOperation scope,  *)
(* driven by request flows that call them.  Every remote call (Railway     *)
(* GraphQL mutation, health GET, webhook POST) is a separate step whose    *)
(* outcome the environment chooses.                                        *)
(***************************************************************************)
EXTENDS Integers, Sequences, FiniteSets, TLC

(* ------------------------------ bounds --------------------------------- *)
NumFlows == 2        \* request flows that may call into the controller
MaxClock == 2        \* largest value time.time() takes
MaxBatch == 2        \* largest number of invocations inside one batch scope

(* -------------------------- program constants -------------------------- *)
max_retries == 5     \* health polls per start

NoneVal == "None"    \* Python's None

Flows == 1..NumFlows

RailwayResponses == {"ok", "transport_error", "http_error", "graphql_errors", "invalid_json"}
HealthResponses == {"200", "non200", "exception"}
WebhookResponses == {"ok", "http_error", "transport_error", "invalid_json"}

VARIABLES
  service_state,   \* _service_state: is_running, last_started, last_stopped
  RAILWAY_TOKEN,   \* TRUE iff RAILWAY_API_TOKEN is set in the environment
  SERVICE_ID,      \* TRUE iff N8N_SERVICE_ID is set in the environment
  clock,           \* the value time.time() returns now
  flow,            \* per request flow: position, call stack, locals, observations
  n8n_env,         \* which of N8N_API_URL, N8N_API_KEY, N8N_BASIC_AUTH_USER/PASSWORD are set
  mgmt,            \* the management call in progress: position, attempts, headers, outcome
  remote           \* the n8n service at Railway: whether it runs, and whether a
                   \* mutation took effect without its response getting back
                   \* since the last mutation that reported success

vars == <<service_state, RAILWAY_TOKEN, SERVICE_ID, clock, flow, n8n_env, mgmt, remote>>

(* --------------------------- _service_state ---------------------------- *)
InitServiceState == [is_running |-> FALSE, last_started |-> 0, last_stopped |-> 0]

\* variant: a successful start sets the flag and forgets the timestamp
StartOkState_flag_only(s, t) == [s EXCEPT !.is_running = TRUE]

\* lines 104-105: the serviceStart mutation succeeded
StartOkState(s, t) == [s EXCEPT !.is_running = TRUE, !.last_started = t]

\* line 133: the except branch of start_n8n
StartFailState(s) == [s EXCEPT !.is_running = FALSE]

\* variant: a successful stop records the time and leaves the flag set
StopOkState_keeps_flag(s, t) == [s EXCEPT !.last_stopped = t]

\* lines 162-163: the serviceStop mutation succeeded
StopOkState(s, t) == [s EXCEPT !.is_running = FALSE, !.last_stopped = t]

\* variant: a failed stop marks the service stopped all the same
StopFailState_optimistic(s) == [s EXCEPT !.is_running = FALSE]

\* lines 169-172: the except branch of stop_n8n leaves the state alone
StopFailState(s) == s

(* ---------------------------- railway_graphql -------------------------- *)
\* variant: railway_graphql checks the token only
railway_config_error_token_only(token, sid) ==
  IF ~token THEN "ValueError" ELSE NoneVal

\* lines 43-47: the configuration checks made before any request is sent
railway_config_error(token, sid) ==
  IF ~token THEN "ValueError"
  ELSE IF ~sid THEN "ValueError"
  ELSE NoneVal

\* variant: railway_graphql without the check for a GraphQL "errors" field
railway_graphql_no_errors_check(resp) ==
  CASE resp = "ok"              -> [kind |-> "return", val |-> "result"]
    [] resp = "transport_error" -> [kind |-> "raise", val |-> "RailwayCommError"]
    [] resp = "http_error"      -> [kind |-> "raise", val |-> "RailwayCommError"]
    [] resp = "graphql_errors"  -> [kind |-> "return", val |-> "result"]
    [] resp = "invalid_json"    -> [kind |-> "raise", val |-> "JSONDecodeError"]

\* lines 54-75: what railway_graphql does with the response to its POST
railway_graphql(resp) ==
  CASE resp = "ok"              -> [kind |-> "return", val |-> "result"]
    [] resp = "transport_error" -> [kind |-> "raise", val |-> "RailwayCommError"]
    [] resp = "http_error"      -> [kind |-> "raise", val |-> "RailwayCommError"]
    [] resp = "graphql_errors"  -> [kind |-> "raise", val |-> "RailwayApiError"]
    [] resp = "invalid_json"    -> [kind |-> "raise", val |-> "JSONDecodeError"]

(* ------------------------------- flows --------------------------------- *)
\* pc, stack: where the flow is and who called the function it is in;
\* keep_alive, error, workflow_response, i: locals of use_n8n_workflow and start_n8n;
\* remaining, size, catches, exc, entered: the batch scope and its body;
\* the rest observes the run: the calls made so far (trace), the state the
\* current call started from (pre), what the remote ends answered
\* (first_200, start_resp, stop_resp, webhook_resp), what start_n8n and
\* stop_n8n gave back, and the caller's previous call (prev, mark)
NoCall == [fn |-> NoneVal, kind |-> NoneVal, val |-> NoneVal]

IdleFlow ==
  [pc |-> "idle", stack |-> <<>>, op |-> "none",
   keep_alive |-> FALSE, error |-> NoneVal, workflow_response |-> NoneVal,
   i |-> 0, first_200 |-> 0,
   remaining |-> 0, size |-> 0, catches |-> FALSE, exc |-> NoneVal, entered |-> FALSE,
   start_status |-> NoneVal, start_exc |-> NoneVal, stop_status |-> NoneVal,
   start_resp |-> NoneVal, stop_resp |-> NoneVal, webhook_resp |-> NoneVal,
   outcome |-> [kind |-> NoneVal, val |-> NoneVal],
   trace |-> <<>>, pre |-> InitServiceState, prev |-> NoCall, mark |-> 0,
   templates |-> <<>>, results |-> <<>>, resp_ok |-> FALSE, where |-> NoneVal,
   keys |-> {}]

\* main.py lines 32-35: the n8n settings read from the environment, TRUE = non-empty
N8NEnvs ==
  [N8N_API_URL : BOOLEAN, N8N_API_KEY : BOOLEAN,
   N8N_BASIC_AUTH_USER : BOOLEAN, N8N_BASIC_AUTH_PASSWORD : BOOLEAN]

EnvUnset ==
  [N8N_API_URL |-> FALSE, N8N_API_KEY |-> FALSE,
   N8N_BASIC_AUTH_USER |-> FALSE, N8N_BASIC_AUTH_PASSWORD |-> FALSE]

\* the service is stopped at Railway when the process starts
InitRemote == [running |-> FALSE, lost |-> FALSE]

\* line 56, timeout=30: a mutation whose request failed in transit may or may
\* not have reached Railway; one answered with an error did not take effect
TakesEffect(resp) == IF resp = "transport_error" THEN BOOLEAN ELSE {FALSE}

\* no management call in progress
\* no workflow spec is being built
NoBuild == [names |-> <<>>, remote |-> {}, listed |-> <<>>, creds |-> <<>>, nodes |-> <<>>]

IdleMgmt ==
  [pc |-> "idle", via |-> NoneVal, op |-> NoneVal, attempts |-> 0, waits |-> <<>>,
   headers |-> {}, statuses |-> <<>>, outcome |-> [kind |-> NoneVal, val |-> NoneVal],
   build |-> NoBuild]

Count(seq, e) == Cardinality({k \in 1..Len(seq) : seq[k] = e})

Log(f, e) == [f EXCEPT !.trace = Append(f.trace, e)]

Init ==
  /\ service_state = InitServiceState
  /\ RAILWAY_TOKEN \in BOOLEAN
  /\ SERVICE_ID \in BOOLEAN
  /\ clock = 1
  /\ flow = [p \in Flows |-> IdleFlow]
  /\ n8n_env = EnvUnset
  /\ mgmt = IdleMgmt
  /\ remote = InitRemote


(* ------------------------- returning to a caller ----------------------- *)
RECURSIVE ReturnTo(_, _, _)

\* variant: a failed start is only logged and the webhook is called all the same
AfterInvokeStart_swallow(g, kind, val) == [g EXCEPT !.pc = "invoke_post"]

\* lines 196-198 and 220-222: start_n8n() came back inside use_n8n_workflow's try
AfterInvokeStart(g, kind, val) ==
  IF kind = "return"
  THEN [g EXCEPT !.pc = "invoke_post"]
  ELSE [g EXCEPT !.pc = "invoke_finally", !.error = val]

\* variant: the except clause of the finally block records the stop failure as the error
AfterInvokeStop_override(g, kind, val) ==
  IF kind = "raise"
  THEN [g EXCEPT !.pc = "invoke_exit", !.error = val]
  ELSE [g EXCEPT !.pc = "invoke_exit"]

\* lines 227-231: stop_n8n() came back inside the finally block; a raise is only logged
AfterInvokeStop(g, kind, val) == [g EXCEPT !.pc = "invoke_exit"]

\* lines 269-272: start_n8n() came back inside __enter__; a raise leaves the with statement
AfterBatchEnter(g, kind, val) ==
  IF kind = "return"
  THEN [g EXCEPT !.pc = "batch_body", !.entered = TRUE]
  ELSE ReturnTo(g, "raise", val)

\* variant: the body of the with statement without a try around each invocation
AfterBatchInvoke_no_catch(g, kind, val) ==
  IF kind = "return"
  THEN [g EXCEPT !.pc = "batch_body", !.results = Append(g.results, TRUE)]
  ELSE [g EXCEPT !.exc = val, !.stack = <<"batch_exit">> \o g.stack, !.pc = "stop_entry"]

\* the body of the with statement: use_n8n_workflow(..., keep_alive=True) came back
\* (docstring lines 262-265: a raise leaves the body; src/main.py lines 639-652: it is caught)
AfterBatchInvoke(g, kind, val) ==
  IF kind = "return" \/ g.catches
  THEN [g EXCEPT !.pc = "batch_body", !.results = Append(g.results, kind = "return")]
  ELSE [g EXCEPT !.exc = val, !.stack = <<"batch_exit">> \o g.stack, !.pc = "stop_entry"]

\* variant: __exit__ returns True, which suppresses the exception of the body
AfterBatchExit_suppress(g, kind, val) == ReturnTo(g, "return", NoneVal)

\* lines 274-280: stop_n8n() came back inside __exit__; its raise is logged, and
\* __exit__ returns False, so an exception of the body goes on to the caller
AfterBatchExit(g, kind, val) ==
  IF g.exc # NoneVal
  THEN ReturnTo(g, "raise", g.exc)
  ELSE ReturnTo(g, "return", NoneVal)

\* main.py lines 165-172: start_n8n() came back inside n8n_bootstrap; a raise is only logged
AfterBootstrapStart(g, kind, val) == [g EXCEPT !.pc = "bootstrap_client"]

\* main.py lines 254-278: the counts are taken and the summary is returned
BootstrapRespond(g) ==
  [g EXCEPT !.pc = "done",
            !.resp_ok = \E k \in 1..Len(g.results) : g.results[k],
            !.outcome = [kind |-> "return", val |-> "summary"]]

\* main.py lines 265-271: stop_n8n() came back inside n8n_bootstrap; a raise is only logged
AfterBootstrapStop(g, kind, val) == BootstrapRespond(g)

\* main.py lines 648-660: the with statement of batch_workflows_execution came
\* back; the counts are taken, or the outer except answers
AfterBatchEndpoint(g, kind, val) ==
  IF kind = "return"
  THEN [g EXCEPT !.pc = "done",
                 !.resp_ok = \E k \in 1..Len(g.results) : g.results[k],
                 !.outcome = [kind |-> "return", val |-> "summary"]]
  ELSE [g EXCEPT !.pc = "done", !.resp_ok = FALSE,
                 !.outcome = [kind |-> "return", val |-> "error_envelope"]]

\* main.py lines 121-133: use_n8n_workflow came back inside orchestrate; its
\* exception is logged and the handler falls back to the regular orchestration
AfterOrchestrate(g, kind, val) ==
  IF kind = "return"
  THEN [g EXCEPT !.pc = "done", !.keys = {"ok", "workflow_result", "controlled_execution"},
                 !.outcome = [kind |-> "return", val |-> "workflow_result"]]
  ELSE [g EXCEPT !.pc = "orchestrate_fallback"]

\* a function returns (kind = "return") or raises (kind = "raise") val to its caller
ReturnTo(f, kind, val) ==
  IF f.stack = <<>>
  THEN [f EXCEPT !.pc = "done", !.outcome = [kind |-> kind, val |-> val]]
  ELSE LET lbl == Head(f.stack)
           g == [f EXCEPT !.stack = Tail(f.stack)]
       IN CASE lbl = "invoke_start" -> AfterInvokeStart(g, kind, val)
            [] lbl = "invoke_stop"  -> AfterInvokeStop(g, kind, val)
            [] lbl = "batch_enter"  -> AfterBatchEnter(g, kind, val)
            [] lbl = "batch_invoke" -> AfterBatchInvoke(g, kind, val)
            [] lbl = "batch_exit"   -> AfterBatchExit(g, kind, val)
            [] lbl = "bootstrap_start" -> AfterBootstrapStart(g, kind, val)
            [] lbl = "bootstrap_stop"  -> AfterBootstrapStop(g, kind, val)
            [] lbl = "batch_endpoint"  -> AfterBatchEndpoint(g, kind, val)
            [] lbl = "orchestrate"     -> AfterOrchestrate(g, kind, val)

\* start_n8n returns or raises; start_status observes which
StartReturn(f, kind, val) ==
  ReturnTo([f EXCEPT !.start_status = IF kind = "return" THEN val ELSE "raised",
                     !.start_exc = IF kind = "return" THEN NoneVal ELSE val], kind, val)

\* stop_n8n returns or raises; stop_status observes which
StopReturn(f, kind, val) ==
  ReturnTo([f EXCEPT !.stop_status = IF kind = "return" THEN val ELSE "raised"], kind, val)

(* ------------------------------ start_n8n ------------------------------ *)
\* variant: start_n8n also skips while another call's serviceStart is pending
start_skips_while_starting(s) ==
  s.is_running \/ \E q \in Flows : flow[q].pc \in {"start_mutation", "start_wait", "health_poll", "health_sleep"}

\* variant: start_n8n without the already-running check
start_skips_never(s) == FALSE

\* line 89: the cached flag decides whether start_n8n does anything
start_skips(s) == s.is_running

\* lines 86-101: the running check, then railway_graphql up to sending the POST
StartEntry(p) ==
  /\ flow[p].pc = "start_entry"
  /\ LET f == Log(flow[p], "start_n8n") IN
       IF start_skips(service_state)
       THEN /\ flow' = [flow EXCEPT ![p] = StartReturn(f, "return", "already_running")]
            /\ UNCHANGED service_state
       ELSE IF railway_config_error(RAILWAY_TOKEN, SERVICE_ID) # NoneVal
       THEN /\ service_state' = StartFailState(service_state)
            /\ flow' = [flow EXCEPT ![p] =
                 StartReturn(f, "raise", railway_config_error(RAILWAY_TOKEN, SERVICE_ID))]
       ELSE /\ flow' = [flow EXCEPT ![p] = [Log(f, "serviceStart") EXCEPT !.pc = "start_mutation"]]
            /\ UNCHANGED service_state
  /\ UNCHANGED <<RAILWAY_TOKEN, SERVICE_ID, clock, n8n_env, mgmt, remote>>

\* time.time(): the clock never goes back, and may have advanced since the last reading
Now == {t \in clock..MaxClock : t <= clock + 1}

\* lines 101-105 and 131-134: the response to the serviceStart mutation
StartMutationResponse(p, resp) ==
  /\ flow[p].pc = "start_mutation"
  /\ LET r == railway_graphql(resp)
         f == [flow[p] EXCEPT !.start_resp = resp]
     IN IF r.kind = "return"
        THEN \E t \in Now :
               /\ service_state' = StartOkState(service_state, t)
               /\ clock' = t
               /\ remote' = [running |-> TRUE, lost |-> FALSE]
               /\ flow' = [flow EXCEPT ![p] = [f EXCEPT !.pc = "start_wait"]]
        ELSE /\ service_state' = StartFailState(service_state)
             /\ flow' = [flow EXCEPT ![p] = StartReturn(f, "raise", r.val)]
             /\ UNCHANGED clock
             /\ \E took \in TakesEffect(resp) :
                  remote' = IF took THEN [running |-> TRUE, lost |-> TRUE] ELSE remote
  /\ UNCHANGED <<RAILWAY_TOKEN, SERVICE_ID, n8n_env, mgmt>>

\* line 110: time.sleep(N8N_STARTUP_WAIT); first is the poll at which the health
\* endpoint will first answer 200 (max_retries + 1: not within max_retries polls)
StartupWait(p, first) ==
  /\ flow[p].pc = "start_wait"
  /\ flow' = [flow EXCEPT ![p] =
       [Log(flow[p], "sleep_startup") EXCEPT !.pc = "health_poll", !.i = 0, !.first_200 = first]]
  /\ UNCHANGED <<service_state, RAILWAY_TOKEN, SERVICE_ID, clock, n8n_env, mgmt, remote>>

\* variant: a start whose last health poll fails raises instead of proceeding
HealthStep_fail_when_exhausted(f, h) ==
  IF h = "200"
  THEN StartReturn(f, "return", "started")
  ELSE IF h = "exception"
  THEN IF f.i < max_retries - 1
       THEN [f EXCEPT !.pc = "health_sleep"]
       ELSE StartReturn(f, "raise", "HealthCheckFailed")
  ELSE IF f.i + 1 < max_retries
       THEN [f EXCEPT !.i = f.i + 1]
       ELSE StartReturn(f, "raise", "HealthCheckFailed")

\* variant: the health loop without the break on a 200 response
HealthStep_no_break(f, h) ==
  IF h = "exception"
  THEN IF f.i < max_retries - 1
       THEN [f EXCEPT !.pc = "health_sleep"]
       ELSE StartReturn(f, "return", "started")
  ELSE IF f.i + 1 < max_retries
       THEN [f EXCEPT !.i = f.i + 1]
       ELSE StartReturn(f, "return", "started")

\* lines 116-129: one iteration of the health loop, the GET answered by h
HealthStep(f, h) ==
  IF h = "200"
  THEN StartReturn(f, "return", "started")
  ELSE IF h = "exception"
  THEN IF f.i < max_retries - 1
       THEN [f EXCEPT !.pc = "health_sleep"]
       ELSE StartReturn(f, "return", "started")
  ELSE IF f.i + 1 < max_retries
       THEN [f EXCEPT !.i = f.i + 1]
       ELSE StartReturn(f, "return", "started")

\* what the health endpoint may answer to poll number k of a start
HealthAnswers(f, k) ==
  IF k = f.first_200 THEN {"200"}
  ELSE IF k < f.first_200 THEN HealthResponses \ {"200"}
  ELSE HealthResponses

\* line 118: requests.get(n8n_health_url, timeout=5), answered by h
HealthPoll(p, h) ==
  /\ flow[p].pc = "health_poll"
  /\ h \in HealthAnswers(flow[p], Count(flow[p].trace, "GET") + 1)
  /\ flow' = [flow EXCEPT ![p] = HealthStep(Log(flow[p], "GET"), h)]
  /\ UNCHANGED <<service_state, RAILWAY_TOKEN, SERVICE_ID, clock, n8n_env, mgmt, remote>>

\* variant: the wait after a failed poll starts the loop over
HealthSleep_restart(p) ==
  /\ flow[p].pc = "health_sleep"
  /\ flow' = [flow EXCEPT ![p] =
       [flow[p] EXCEPT !.pc = "health_poll", !.i = 0,
                       !.trace = SubSeq(flow[p].trace, 1, Len(flow[p].trace) - 1)]]
  /\ UNCHANGED <<service_state, RAILWAY_TOKEN, SERVICE_ID, clock, n8n_env, mgmt, remote>>

\* line 125: time.sleep(3), then the next iteration
HealthSleep(p) ==
  /\ flow[p].pc = "health_sleep"
  /\ flow' = [flow EXCEPT ![p] =
       [Log(flow[p], "sleep3") EXCEPT !.pc = "health_poll", !.i = flow[p].i + 1]]
  /\ UNCHANGED <<service_state, RAILWAY_TOKEN, SERVICE_ID, clock, n8n_env, mgmt, remote>>

(* ------------------------------- stop_n8n ------------------------------ *)
\* variant: stop_n8n also skips while another request's webhook call is pending
stop_skips_while_in_use(s) ==
  ~s.is_running \/ \E q \in Flows : flow[q].pc = "invoke_webhook"

\* variant: stop_n8n without the already-stopped check
stop_skips_never(s) == FALSE

\* line 147: the cached flag decides whether stop_n8n does anything
stop_skips(s) == ~s.is_running

\* lines 144-159: the stopped check, then railway_graphql up to sending the POST
StopEntry(p) ==
  /\ flow[p].pc = "stop_entry"
  /\ LET f == Log(flow[p], "stop_n8n") IN
       IF stop_skips(service_state)
       THEN /\ flow' = [flow EXCEPT ![p] = StopReturn(f, "return", "already_stopped")]
            /\ UNCHANGED service_state
       ELSE IF railway_config_error(RAILWAY_TOKEN, SERVICE_ID) # NoneVal
       THEN /\ service_state' = StopFailState(service_state)
            /\ flow' = [flow EXCEPT ![p] =
                 StopReturn(f, "raise", railway_config_error(RAILWAY_TOKEN, SERVICE_ID))]
       ELSE /\ flow' = [flow EXCEPT ![p] = [Log(f, "serviceStop") EXCEPT !.pc = "stop_mutation"]]
            /\ UNCHANGED service_state
  /\ UNCHANGED <<RAILWAY_TOKEN, SERVICE_ID, clock, n8n_env, mgmt, remote>>

\* lines 159-172: the response to the serviceStop mutation
StopMutationResponse(p, resp) ==
  /\ flow[p].pc = "stop_mutation"
  /\ LET r == railway_graphql(resp)
         f == [flow[p] EXCEPT !.stop_resp = resp]
     IN IF r.kind = "return"
        THEN \E t \in Now :
               /\ service_state' = StopOkState(service_state, t)
               /\ clock' = t
               /\ remote' = [running |-> FALSE, lost |-> FALSE]
               /\ flow' = [flow EXCEPT ![p] = StopReturn(f, "return", "stopped")]
        ELSE /\ service_state' = StopFailState(service_state)
             /\ flow' = [flow EXCEPT ![p] = StopReturn(f, "raise", r.val)]
             /\ UNCHANGED clock
             /\ \E took \in TakesEffect(resp) :
                  remote' = IF took THEN [running |-> FALSE, lost |-> TRUE] ELSE remote
  /\ UNCHANGED <<RAILWAY_TOKEN, SERVICE_ID, n8n_env, mgmt>>

(* --------------------------- use_n8n_workflow -------------------------- *)
\* variant: use_n8n_workflow goes to the webhook without calling start_n8n()
EnterInvoke_no_start(f, ka) ==
  [f EXCEPT !.keep_alive = ka, !.error = NoneVal, !.workflow_response = NoneVal,
            !.webhook_resp = NoneVal, !.pc = "invoke_post"]

\* lines 191-198: the locals are cleared and start_n8n() is called inside the try
EnterInvoke(f, ka) ==
  [f EXCEPT !.keep_alive = ka, !.error = NoneVal, !.workflow_response = NoneVal,
            !.webhook_resp = NoneVal, !.stack = <<"invoke_start">> \o f.stack, !.pc = "start_entry"]

\* lines 201-209: the webhook POST is sent
InvokePost(p) ==
  /\ flow[p].pc = "invoke_post"
  /\ flow' = [flow EXCEPT ![p] = [Log(flow[p], "POST") EXCEPT !.pc = "invoke_webhook"]]
  /\ UNCHANGED <<service_state, RAILWAY_TOKEN, SERVICE_ID, clock, n8n_env, mgmt, remote>>

\* lines 205-222: what the try block does with the answer to the POST
WebhookStep(f, w) ==
  CASE w = "ok"              -> [f EXCEPT !.workflow_response = "json", !.pc = "invoke_finally"]
    [] w = "http_error"      -> [f EXCEPT !.error = "HTTPError", !.pc = "invoke_finally"]
    [] w = "transport_error" -> [f EXCEPT !.error = "ConnectionError", !.pc = "invoke_finally"]
    [] w = "invalid_json"    -> [f EXCEPT !.error = "JSONDecodeError", !.pc = "invoke_finally"]

WebhookResponse(p, w) ==
  /\ flow[p].pc = "invoke_webhook"
  /\ flow' = [flow EXCEPT ![p] = WebhookStep([flow[p] EXCEPT !.webhook_resp = w], w)]
  /\ UNCHANGED <<service_state, RAILWAY_TOKEN, SERVICE_ID, clock, n8n_env, mgmt, remote>>

\* variant: the stop is made after a successful invocation only
FinallyStep_skip_on_error(f) ==
  IF ~f.keep_alive /\ f.error = NoneVal
  THEN [f EXCEPT !.stack = <<"invoke_stop">> \o f.stack, !.pc = "stop_entry"]
  ELSE [f EXCEPT !.pc = "invoke_exit"]

\* variant: the finally block ignores keep_alive
FinallyStep_always_stop(f) ==
  [f EXCEPT !.stack = <<"invoke_stop">> \o f.stack, !.pc = "stop_entry"]

\* lines 224-228: the finally block calls stop_n8n() unless keep_alive
FinallyStep(f) ==
  IF ~f.keep_alive
  THEN [f EXCEPT !.stack = <<"invoke_stop">> \o f.stack, !.pc = "stop_entry"]
  ELSE [f EXCEPT !.pc = "invoke_exit"]

InvokeFinally(p) ==
  /\ flow[p].pc = "invoke_finally"
  /\ flow' = [flow EXCEPT ![p] = FinallyStep(flow[p])]
  /\ UNCHANGED <<service_state, RAILWAY_TOKEN, SERVICE_ID, clock, n8n_env, mgmt, remote>>

\* lines 233-237: raise the recorded error, or return the workflow response
ExitStep(f) ==
  IF f.error # NoneVal
  THEN ReturnTo(f, "raise", f.error)
  ELSE ReturnTo(f, "return", f.workflow_response)

InvokeExit(p) ==
  /\ flow[p].pc = "invoke_exit"
  /\ flow' = [flow EXCEPT ![p] = ExitStep(flow[p])]
  /\ UNCHANGED <<service_state, RAILWAY_TOKEN, SERVICE_ID, clock, n8n_env, mgmt, remote>>

(* --------------------------- N8NBatchOperation ------------------------- *)
\* the body of the with statement: the next invocation, or the end of the body
BatchStep(f) ==
  IF f.remaining = 0
  THEN [f EXCEPT !.stack = <<"batch_exit">> \o f.stack, !.pc = "stop_entry"]
  ELSE EnterInvoke([f EXCEPT !.remaining = f.remaining - 1,
                             !.stack = <<"batch_invoke">> \o f.stack], TRUE)

BatchBody(p) ==
  /\ flow[p].pc = "batch_body"
  /\ flow' = [flow EXCEPT ![p] = BatchStep(flow[p])]
  /\ UNCHANGED <<service_state, RAILWAY_TOKEN, SERVICE_ID, clock, n8n_env, mgmt, remote>>

(* ------------------------------ the callers ---------------------------- *)
Exclusive(p) == \A q \in Flows \ {p} : flow[q].pc = "idle"

Begin(op) == [IdleFlow EXCEPT !.op = op, !.pre = service_state]

CallStart(p) ==
  /\ flow[p].pc = "idle"
  /\ flow' = [flow EXCEPT ![p] = [Begin("start") EXCEPT !.pc = "start_entry"]]
  /\ UNCHANGED <<service_state, RAILWAY_TOKEN, SERVICE_ID, clock, n8n_env, mgmt, remote>>

CallStop(p) ==
  /\ flow[p].pc = "idle"
  /\ flow' = [flow EXCEPT ![p] = [Begin("stop") EXCEPT !.pc = "stop_entry"]]
  /\ UNCHANGED <<service_state, RAILWAY_TOKEN, SERVICE_ID, clock, n8n_env, mgmt, remote>>

CallInvoke(p, ka) ==
  /\ flow[p].pc = "idle"
  /\ flow' = [flow EXCEPT ![p] = EnterInvoke(Begin("invoke"), ka)]
  /\ UNCHANGED <<service_state, RAILWAY_TOKEN, SERVICE_ID, clock, n8n_env, mgmt, remote>>

\* with N8NBatchOperation(): n invocations with keep_alive=True
EnterBatch(p, n, catches) ==
  /\ flow[p].pc = "idle"
  /\ flow' = [flow EXCEPT ![p] =
       [Begin("batch") EXCEPT !.remaining = n, !.size = n, !.catches = catches,
                              !.stack = <<"batch_enter">>, !.pc = "start_entry"]]
  /\ UNCHANGED <<service_state, RAILWAY_TOKEN, SERVICE_ID, clock, n8n_env, mgmt, remote>>

\* a caller that has its answer from start_n8n or stop_n8n calls one of them again
CallAgain(p, fn) ==
  /\ flow[p].pc = "done"
  /\ flow[p].op \in {"start", "stop"}
  /\ flow[p].prev = NoCall
  /\ flow' = [flow EXCEPT ![p] =
       [flow[p] EXCEPT !.prev = [fn |-> flow[p].op, kind |-> flow[p].outcome.kind,
                                 val |-> flow[p].outcome.val],
                       !.mark = Len(flow[p].trace),
                       !.op = fn, !.pre = service_state,
                       !.start_resp = NoneVal, !.stop_resp = NoneVal,
                       !.outcome = IdleFlow.outcome,
                       !.pc = IF fn = "start" THEN "start_entry" ELSE "stop_entry"]]
  /\ UNCHANGED <<service_state, RAILWAY_TOKEN, SERVICE_ID, clock, n8n_env, mgmt, remote>>

\* lines 240-254: get_service_status() reads the three fields
GetServiceStatus(p) ==
  /\ flow[p].pc = "idle"
  /\ flow' = [flow EXCEPT ![p] =
       [Begin("get_service_status") EXCEPT !.pc = "done",
          !.outcome = [kind |-> "return",
                       val |-> IF service_state.is_running THEN "running" ELSE "not_running"]]]
  /\ UNCHANGED <<service_state, RAILWAY_TOKEN, SERVICE_ID, clock, n8n_env, mgmt, remote>>

\* lines 284-301: test_railway_connection() sends the query me { id } through
\* railway_graphql, whose configuration check comes first
CallTestConnection(p) ==
  /\ flow[p].pc = "idle"
  /\ flow' = [flow EXCEPT ![p] =
       IF railway_config_error(RAILWAY_TOKEN, SERVICE_ID) # NoneVal
       THEN [Begin("test_railway_connection") EXCEPT !.pc = "done",
               !.outcome = [kind |-> "return", val |-> "False"]]
       ELSE [Log(Begin("test_railway_connection"), "me") EXCEPT !.pc = "test_query"]]
  /\ UNCHANGED <<service_state, RAILWAY_TOKEN, SERVICE_ID, clock, n8n_env, mgmt, remote>>

\* variant: a successful connection test marks the service running
test_connection_state_marks(s, r) ==
  IF r.kind = "return" THEN [s EXCEPT !.is_running = TRUE] ELSE s

\* lines 284-305 and 30-75: neither test_railway_connection nor railway_graphql
\* writes _service_state
test_connection_state(s, r) == s

\* lines 301-305: True when railway_graphql returned, False when it raised
TestConnectionResponse(p, resp) ==
  /\ flow[p].pc = "test_query"
  /\ LET r == railway_graphql(resp) IN
       /\ service_state' = test_connection_state(service_state, r)
       /\ flow' = [flow EXCEPT ![p] =
            [flow[p] EXCEPT !.pc = "done",
               !.outcome = [kind |-> "return",
                            val |-> IF r.kind = "return" THEN "True" ELSE "False"]]]
  /\ UNCHANGED <<RAILWAY_TOKEN, SERVICE_ID, clock, n8n_env, mgmt, remote>>

\* the caller has the result; the flow is free for the next request
Finish(p) ==
  /\ flow[p].pc = "done"
  /\ flow' = [flow EXCEPT ![p] = IdleFlow]
  /\ UNCHANGED <<service_state, RAILWAY_TOKEN, SERVICE_ID, clock, n8n_env, mgmt, remote>>

Next ==
  \E p \in Flows :
    \/ Exclusive(p) /\ CallStart(p)
    \/ Exclusive(p) /\ CallStop(p)
    \/ \E ka \in BOOLEAN : Exclusive(p) /\ CallInvoke(p, ka)
    \/ \E n \in 0..MaxBatch, c \in BOOLEAN : Exclusive(p) /\ EnterBatch(p, n, c)
    \/ \E fn \in {"start", "stop"} : CallAgain(p, fn)
    \/ Exclusive(p) /\ GetServiceStatus(p)
    \/ Exclusive(p) /\ CallTestConnection(p)
    \/ \E resp \in RailwayResponses : TestConnectionResponse(p, resp)
    \/ StartEntry(p)
    \/ \E resp \in RailwayResponses : StartMutationResponse(p, resp)
    \/ \E first \in 1..(max_retries + 1) : StartupWait(p, first)
    \/ \E h \in HealthResponses : HealthPoll(p, h)
    \/ HealthSleep(p)
    \/ StopEntry(p)
    \/ \E resp \in RailwayResponses : StopMutationResponse(p, resp)
    \/ InvokePost(p)
    \/ \E w \in WebhookResponses : WebhookResponse(p, w)
    \/ InvokeFinally(p)
    \/ InvokeExit(p)
    \/ BatchBody(p)
    \/ Finish(p)

Spec == Init /\ [][Next]_vars


(* ------------------------- overlapping requests ------------------------ *)
\* the module keeps _service_state in a plain dict with no lock (lines 26-27),
\* so calls made by two requests at a time interleave at every remote call
Overlapping(p) ==
  \E q \in Flows \ {p} : \A r \in Flows \ {p, q} : flow[r].pc = "idle"

\* in the overlapping runs the health endpoint answers 200 to the first or the second poll
OverlapFirst200 == {1, 2}

\* the answers drawn in the overlapping runs: success and one failure of each call
OverlapRailwayResponses == {"ok", "http_error"}
OverlapWebhookResponses == {"ok", "http_error"}

NextOverlap ==
  \E p \in Flows :
    \/ Overlapping(p) /\ CallStart(p)
    \/ Overlapping(p) /\ CallStop(p)
    \/ Overlapping(p) /\ CallInvoke(p, FALSE)
    \/ StartEntry(p)
    \/ \E resp \in OverlapRailwayResponses : StartMutationResponse(p, resp)
    \/ \E first \in OverlapFirst200 : StartupWait(p, first)
    \/ \E h \in HealthResponses : HealthPoll(p, h)
    \/ HealthSleep(p)
    \/ StopEntry(p)
    \/ \E resp \in OverlapRailwayResponses : StopMutationResponse(p, resp)
    \/ InvokePost(p)
    \/ \E w \in OverlapWebhookResponses : WebhookResponse(p, w)
    \/ InvokeFinally(p)
    \/ InvokeExit(p)
    \/ Finish(p)

\* the overlapping runs take place within one reading of the clock
InitOverlap ==
  /\ service_state = InitServiceState
  /\ RAILWAY_TOKEN \in BOOLEAN
  /\ SERVICE_ID \in BOOLEAN
  /\ clock = MaxClock
  /\ flow = [p \in Flows |-> IdleFlow]
  /\ n8n_env = EnvUnset
  /\ mgmt = IdleMgmt
  /\ remote = InitRemote

SpecOverlap == InitOverlap /\ [][NextOverlap]_vars

\* the steps of flow p inside start_n8n, stop_n8n and use_n8n_workflow: a remote
\* call is answered or times out, a sleep ends, a local step runs
Progress(p) ==
  \/ StartEntry(p)
  \/ \E resp \in RailwayResponses : StartMutationResponse(p, resp)
  \/ \E first \in 1..(max_retries + 1) : StartupWait(p, first)
  \/ \E h \in HealthResponses : HealthPoll(p, h)
  \/ HealthSleep(p)
  \/ StopEntry(p)
  \/ \E resp \in RailwayResponses : StopMutationResponse(p, resp)
  \/ InvokePost(p)
  \/ \E w \in WebhookResponses : WebhookResponse(p, w)
  \/ InvokeFinally(p)
  \/ InvokeExit(p)

\* one request at a time calls start_n8n, stop_n8n or use_n8n_workflow
NextLive ==
  \E p \in Flows :
    \/ Exclusive(p) /\ CallStart(p)
    \/ Exclusive(p) /\ CallStop(p)
    \/ \E ka \in BOOLEAN : Exclusive(p) /\ CallInvoke(p, ka)
    \/ Progress(p)
    \/ Finish(p)

\* every remote call has a timeout (lines 56, 118, 208) and the sleeps are
\* finite, so a call that has been made goes on; the clock is left out
SpecLive == InitOverlap /\ [][NextLive]_vars /\ \A p \in Flows : WF_vars(Progress(p))

(* -------------------------- POST /batch/workflows ---------------------- *)
\* main.py lines 614-627: the configuration check, then with N8NBatchOperation()
\* around n invocations, each in its own try
CallBatchEndpoint(p, n) ==
  /\ flow[p].pc = "idle"
  /\ flow' = [flow EXCEPT ![p] =
       IF ~(RAILWAY_TOKEN /\ SERVICE_ID)
       THEN [Begin("batch_endpoint") EXCEPT !.pc = "done", !.size = n, !.remaining = n,
               !.outcome = [kind |-> "return", val |-> "not_configured"]]
       ELSE [Begin("batch_endpoint") EXCEPT !.remaining = n, !.size = n, !.catches = TRUE,
               !.stack = <<"batch_enter", "batch_endpoint">>, !.pc = "start_entry"]]
  /\ UNCHANGED <<service_state, RAILWAY_TOKEN, SERVICE_ID, clock, n8n_env, mgmt, remote>>

\* one request at a time: the batch endpoint, and start_n8n and stop_n8n between batches
NextBatch ==
  \E p \in Flows :
    \/ \E n \in 0..MaxBatch : Exclusive(p) /\ CallBatchEndpoint(p, n)
    \/ Exclusive(p) /\ CallStart(p)
    \/ Exclusive(p) /\ CallStop(p)
    \/ Progress(p)
    \/ BatchBody(p)
    \/ Finish(p)

SpecBatch == Init /\ [][NextBatch]_vars

(* ------------------ /health, /status, /orchestrate, /report ------------ *)
\* main.py lines 84-87
CallHealth(p) ==
  /\ flow[p].pc = "idle"
  /\ flow' = [flow EXCEPT ![p] =
       [Begin("health") EXCEPT !.pc = "done", !.keys = {"ok", "timestamp"},
                               !.outcome = [kind |-> "return", val |-> "health"]]]
  /\ UNCHANGED <<service_state, RAILWAY_TOKEN, SERVICE_ID, clock, n8n_env, mgmt, remote>>

\* main.py lines 89-101
CallStatus(p) ==
  /\ flow[p].pc = "idle"
  /\ flow' = [flow EXCEPT ![p] =
       [Begin("status") EXCEPT !.pc = "done",
          !.keys = {"status", "timestamp", "memory_count", "decision_capability",
                    "n8n_configured", "n8n_service", "railway_configured"},
          !.outcome = [kind |-> "return",
                       val |-> IF service_state.is_running THEN "running" ELSE "not_running"]]]
  /\ UNCHANGED <<service_state, RAILWAY_TOKEN, SERVICE_ID, clock, n8n_env, mgmt, remote>>

\* main.py lines 146-155: raises is whether request.json() or memory.store raised
CallReport(p, raises) ==
  /\ flow[p].pc = "idle"
  /\ flow' = [flow EXCEPT ![p] =
       [Begin("report") EXCEPT !.pc = "done",
          !.keys = IF raises THEN {"ok", "error"} ELSE {"status"},
          !.outcome = [kind |-> "return", val |-> IF raises THEN "error_envelope" ELSE "remembered"]]]
  /\ UNCHANGED <<service_state, RAILWAY_TOKEN, SERVICE_ID, clock, n8n_env, mgmt, remote>>

\* main.py lines 103-123: with a workflow_id and the controller configured the
\* handler calls use_n8n_workflow(workflow_id, payload)
CallOrchestrate(p, workflow_id) ==
  /\ flow[p].pc = "idle"
  /\ flow' = [flow EXCEPT ![p] =
       IF workflow_id /\ RAILWAY_TOKEN /\ SERVICE_ID
       THEN EnterInvoke([Begin("orchestrate") EXCEPT !.stack = <<"orchestrate">>], FALSE)
       ELSE [Begin("orchestrate") EXCEPT !.pc = "orchestrate_fallback"]]
  /\ UNCHANGED <<service_state, RAILWAY_TOKEN, SERVICE_ID, clock, n8n_env, mgmt, remote>>

\* main.py lines 134-144: the regular orchestration; raises is whether
\* memory.recall or decision_engine.decide raised
OrchestrateFallback(p, raises) ==
  /\ flow[p].pc = "orchestrate_fallback"
  /\ flow' = [flow EXCEPT ![p] =
       [flow[p] EXCEPT !.pc = "done",
          !.keys = IF raises THEN {"ok", "error"} ELSE {"decision", "memory_context"},
          !.outcome = [kind |-> "return", val |-> IF raises THEN "error_envelope" ELSE "decision"]]]
  /\ UNCHANGED <<service_state, RAILWAY_TOKEN, SERVICE_ID, clock, n8n_env, mgmt, remote>>

NextFacade ==
  \E p \in Flows :
    \/ Exclusive(p) /\ CallHealth(p)
    \/ Exclusive(p) /\ CallStatus(p)
    \/ \E raises \in BOOLEAN : Exclusive(p) /\ CallReport(p, raises)
    \/ \E workflow_id \in BOOLEAN : Exclusive(p) /\ CallOrchestrate(p, workflow_id)
    \/ \E raises \in BOOLEAN : OrchestrateFallback(p, raises)
    \/ Progress(p)
    \/ Finish(p)

SpecFacade == Init /\ [][NextFacade]_vars

(* ---------------- n8n management client and its callers ---------------- *)
\* the statuses the n8n server answers with; NoResponse: the connection failed
NoResponse == 0
Statuses == {200, 204, 400, 401, 403, 404, 405, 500, 503}
Bodies == {"json", "text"}

ClientOps ==
  {"list_credentials", "list_workflows", "get_workflow", "create_workflow",
   "update_workflow", "delete_workflow", "activate_workflow", "deactivate_workflow",
   "run_workflow_once", "list_executions"}

\* main.py lines 40-58: the URL and at least one way to authenticate are set
assert_n8n_ready(env) ==
  /\ env.N8N_API_URL
  /\ env.N8N_API_KEY \/ (env.N8N_BASIC_AUTH_USER /\ env.N8N_BASIC_AUTH_PASSWORD)

\* caia_n8n_client.py line 26: the parameters of N8NClient.__init__, and those without a default
N8NClient_init_params == {"base_url", "api_key", "session"}
N8NClient_init_required == {"base_url", "api_key"}

\* a call of N8NClient(...) by keywords: Python raises TypeError for a keyword
\* that is no parameter and for a missing required parameter
N8NClient_init(kwargs) ==
  IF kwargs \subseteq N8NClient_init_params /\ N8NClient_init_required \subseteq kwargs
  THEN "client"
  ELSE "TypeError"

\* main.py lines 66-71: the keywords _n8n_client() passes
n8n_client_kwargs == {"base_url", "api_key", "basic_user", "basic_password"}

\* main.py lines 60-71: None when n8n is not configured, else the constructor call
n8n_client(env) ==
  IF ~assert_n8n_ready(env) THEN NoneVal ELSE N8NClient_init(n8n_client_kwargs)

\* caia_n8n_client.py lines 32-40: the headers of every request
headers == {"X-N8N-API-KEY", "Authorization: Bearer", "Content-Type", "Accept"}

\* the scheme a set of request headers authenticates with
AuthScheme(h) ==
  IF "Authorization: Basic" \in h THEN "basic"
  ELSE IF "X-N8N-API-KEY" \in h THEN "api_key"
  ELSE "none"

\* caia_n8n_client.py lines 49-64: what _request does with the server's answer
request_result(status, body) ==
  IF status = NoResponse
  THEN [kind |-> "raise", val |-> "ClientError"]
  ELSE IF status >= 200 /\ status < 300
  THEN [kind |-> "return", val |-> IF body = "json" THEN "json" ELSE "raw"]
  ELSE [kind |-> "raise", val |-> "N8NError"]

\* caia_n8n_client.py lines 71-123: the operations return what _request returns;
\* run_workflow_once alone turns a 404 or 405 into a value (lines 115-117)
operation_result(op, status, r) ==
  IF op = "run_workflow_once" /\ r.val = "N8NError" /\ status \in {404, 405}
  THEN [kind |-> "return", val |-> "hint"]
  ELSE r

\* main.py lines 288-434: a handler returns the operation's value and turns
\* an exception into {"ok": False, "where", "error"}
handler_result(r) ==
  IF r.kind = "raise" THEN [kind |-> "return", val |-> "error_envelope"] ELSE r

\* variant: _request sends the request again after any error status, up to three
\* times, waiting 1, 2 units in between
request_step_retry_on_error(m, status, body) ==
  LET seen == [m EXCEPT !.statuses = Append(m.statuses, status)]
      r == operation_result(m.op, status, request_result(status, body))
  IN IF status # NoResponse /\ status >= 400 /\ m.attempts < 3
     THEN [seen EXCEPT !.pc = "request", !.waits = Append(m.waits, 2 ^ (m.attempts - 1))]
     ELSE [seen EXCEPT !.pc = "done",
                       !.outcome = IF m.via = "handler" THEN handler_result(r) ELSE r]

\* caia_n8n_client.py lines 49-64: one answer ends the call, no request is repeated
request_step(m, status, body) ==
  LET r == operation_result(m.op, status, request_result(status, body))
  IN [m EXCEPT !.pc = "done",
               !.statuses = Append(m.statuses, status),
               !.outcome = IF m.via = "handler" THEN handler_result(r) ELSE r]

\* main.py lines 288-434, 662-681: a proxy handler obtains the client and calls op
HandlerCall(op) ==
  /\ mgmt.pc = "idle"
  /\ LET c == n8n_client(n8n_env)
         m == [IdleMgmt EXCEPT !.via = "handler", !.op = op]
     IN mgmt' = IF c = NoneVal
                THEN [m EXCEPT !.pc = "done",
                               !.outcome = [kind |-> "return", val |-> "not_configured"]]
                ELSE IF c = "TypeError"
                THEN [m EXCEPT !.pc = "done",
                               !.outcome = handler_result([kind |-> "raise", val |-> "TypeError"])]
                ELSE [m EXCEPT !.pc = "request"]
  /\ UNCHANGED <<service_state, RAILWAY_TOKEN, SERVICE_ID, clock, flow, n8n_env, remote>>

\* caia_n8n_client.py lines 551-555, 585-589: a caller that builds
\* N8NClient(base, key) itself, as the command-line entry points do, and calls op
ClientCall(op) ==
  /\ mgmt.pc = "idle"
  /\ LET m == [IdleMgmt EXCEPT !.via = "client", !.op = op]
     IN mgmt' = IF ~n8n_env.N8N_API_URL \/ ~n8n_env.N8N_API_KEY
                THEN [m EXCEPT !.pc = "done",
                               !.outcome = [kind |-> "raise", val |-> "SystemExit"]]
                ELSE IF N8NClient_init({"base_url", "api_key"}) = "client"
                THEN [m EXCEPT !.pc = "request"]
                ELSE [m EXCEPT !.pc = "done",
                               !.outcome = [kind |-> "raise", val |-> "TypeError"]]
  /\ UNCHANGED <<service_state, RAILWAY_TOKEN, SERVICE_ID, clock, flow, n8n_env, remote>>

\* caia_n8n_client.py lines 47-49: _request sends the request with _headers()
SendRequest ==
  /\ mgmt.pc = "request"
  /\ mgmt' = [mgmt EXCEPT !.pc = "awaiting", !.attempts = @ + 1, !.headers = headers]
  /\ UNCHANGED <<service_state, RAILWAY_TOKEN, SERVICE_ID, clock, flow, n8n_env, remote>>

ServerResponse(status, body) ==
  /\ mgmt.pc = "awaiting"
  /\ mgmt' = request_step(mgmt, status, body)
  /\ UNCHANGED <<service_state, RAILWAY_TOKEN, SERVICE_ID, clock, flow, n8n_env, remote>>

\* the caller has its answer; the next management call may begin
MgmtFinish ==
  /\ mgmt.pc = "done"
  /\ mgmt' = IdleMgmt
  /\ UNCHANGED <<service_state, RAILWAY_TOKEN, SERVICE_ID, clock, flow, n8n_env, remote>>

InitClient ==
  /\ service_state = InitServiceState
  /\ RAILWAY_TOKEN = FALSE
  /\ SERVICE_ID = FALSE
  /\ clock = 1
  /\ flow = [p \in Flows |-> IdleFlow]
  /\ n8n_env \in N8NEnvs
  /\ mgmt = IdleMgmt
  /\ remote = InitRemote

NextClient ==
  \/ \E op \in ClientOps : HandlerCall(op)
  \/ \E op \in ClientOps : ClientCall(op)
  \/ SendRequest
  \/ \E status \in Statuses \cup {NoResponse}, body \in Bodies : ServerResponse(status, body)
  \/ MgmtFinish

SpecClient == InitClient /\ [][NextClient]_vars

(* -------------------- workflow spec builders ------------------------- *)
\* the display names of the credentials the n8n server may hold
CredNames == {"Telegram account 2", "Gmail account"}
\* caia_n8n_client.py lines 287-288: the values N8N_CRED_TELEGRAM and
\* N8N_CRED_GMAIL may have; "" is set but empty
NameInputs == CredNames \cup {""}

\* caia_n8n_client.py lines 290-291: the node.credentials key of each name
type_keys == <<"telegramApi", "gmailOAuth2">>

\* caia_n8n_client.py lines 74-79: the credential of that name in the answer of
\* list_credentials, or None; an answer that was no JSON comes back from _request
\* as a dict (line 60), whose keys have no .get
get_credential_by_name(r, remote_creds, name) ==
  IF r.kind = "raise" THEN r
  ELSE IF r.val = "raw" THEN [kind |-> "raise", val |-> "AttributeError"]
  ELSE [kind |-> "return", val |-> IF name \in remote_creds THEN name ELSE NoneVal]

\* caia_n8n_client.py lines 148-150: resolve with the result of the lookup
resolve(type_key, cred) ==
  IF cred.kind = "raise" THEN cred
  ELSE IF cred.val = NoneVal THEN [kind |-> "raise", val |-> "RuntimeError"]
  ELSE [kind |-> "return", val |-> [type |-> type_key, name |-> cred.val]]

\* caia_n8n_client.py lines 298-335: the three nodes and their credentials
tg_to_gmail_nodes(telegram_cred, gmail_cred) ==
  << [id |-> "tg-trigger", credentials |-> telegram_cred],
     [id |-> "gmail-send", credentials |-> gmail_cred],
     [id |-> "tg-ack",     credentials |-> telegram_cred] >>

\* caia_n8n_client.py lines 145-147: resolve of the next name begins; an empty
\* name raises ValueError before any request
resolve_begin(m) ==
  IF m.build.names[Len(m.build.creds) + 1] = ""
  THEN [m EXCEPT !.pc = "done", !.outcome = [kind |-> "raise", val |-> "ValueError"]]
  ELSE [m EXCEPT !.pc = "request"]

\* caia_n8n_client.py lines 274-291: build_wf_tg_to_gmail(client, ...) with the two
\* names from the environment; remote_creds is what the server holds
CallBuild(telegram_name, gmail_name, remote_creds) ==
  /\ mgmt.pc = "idle"
  /\ mgmt' = resolve_begin(
       [IdleMgmt EXCEPT !.via = "builder", !.op = "build_wf_tg_to_gmail",
                        !.build = [NoBuild EXCEPT !.names = <<telegram_name, gmail_name>>,
                                                  !.remote = remote_creds]])
  /\ UNCHANGED <<service_state, RAILWAY_TOKEN, SERVICE_ID, clock, flow, n8n_env, remote>>

\* caia_n8n_client.py lines 290-291, 293-341: the answer to list_credentials
\* within resolve; an exception leaves the builder, the second name follows
\* the first, and after both the spec is returned
build_step(m, status, body) ==
  LET k == Len(m.build.creds) + 1
      r == resolve(type_keys[k],
             get_credential_by_name(request_result(status, body), m.build.remote,
                                    m.build.names[k]))
      seen == [m EXCEPT !.statuses = Append(m.statuses, status),
                        !.build.listed = Append(m.build.listed, body)]
  IN IF r.kind = "raise"
     THEN [seen EXCEPT !.pc = "done", !.outcome = r]
     ELSE LET got == [seen EXCEPT !.build.creds = Append(m.build.creds, r.val)]
          IN IF k < Len(type_keys)
             THEN resolve_begin(got)
             ELSE [got EXCEPT !.pc = "done",
                     !.build.nodes = tg_to_gmail_nodes(got.build.creds[1], got.build.creds[2]),
                     !.outcome = [kind |-> "return", val |-> "spec"]]

BuildResponse(status, body) ==
  /\ mgmt.pc = "awaiting"
  /\ mgmt.via = "builder"
  /\ mgmt' = build_step(mgmt, status, body)
  /\ UNCHANGED <<service_state, RAILWAY_TOKEN, SERVICE_ID, clock, flow, n8n_env, remote>>

NextBuild ==
  \/ \E telegram_name, gmail_name \in NameInputs, remote_creds \in SUBSET CredNames :
       CallBuild(telegram_name, gmail_name, remote_creds)
  \/ SendRequest
  \/ \E status \in Statuses \cup {NoResponse}, body \in Bodies : BuildResponse(status, body)
  \/ MgmtFinish

InitBuild ==
  /\ service_state = InitServiceState
  /\ RAILWAY_TOKEN = FALSE
  /\ SERVICE_ID = FALSE
  /\ clock = 1
  /\ flow = [p \in Flows |-> IdleFlow]
  /\ n8n_env = [EnvUnset EXCEPT !.N8N_API_URL = TRUE, !.N8N_API_KEY = TRUE]
  /\ mgmt = IdleMgmt
  /\ remote = InitRemote

SpecBuild == InitBuild /\ [][NextBuild]_vars

(* --------------------------- POST /n8n/bootstrap ----------------------- *)
\* main.py lines 182-251: the four templates, in the order they are deployed
Templates == <<"mail-digest", "tg-to-gmail", "failure-guard", "heartbeat">>

\* for each template, whether building it and creating the workflow went through
TemplateRuns == [1..Len(Templates) -> BOOLEAN]

\* caia_n8n_client.py lines 535-547: deploy_spec returns the pair (wf_id, test_result)
deploy_spec_returns == "tuple"

\* main.py lines 182-194 (and the same for the other three): the entry appended
\* for a template is counted as a success when it is a dict whose "ok" is true;
\* wf_result["name"] = ... on a tuple raises TypeError, and every exception of
\* the block appends {"ok": False, "name", "error"}
template_ok(deployed) == deployed /\ deploy_spec_returns = "dict"

\* main.py lines 174-271: from the client to the response or to the call of stop_n8n
bootstrap_step(g, c, runs, railway) ==
  IF c = NoneVal
  THEN [g EXCEPT !.pc = "done", !.where = "bootstrap.init",
                 !.outcome = [kind |-> "return", val |-> "not_configured"]]
  ELSE IF c = "TypeError"
  THEN [g EXCEPT !.pc = "done", !.where = "bootstrap",
                 !.outcome = [kind |-> "return", val |-> "error_envelope"]]
  ELSE LET h == [g EXCEPT !.templates = Templates,
                          !.results = [k \in 1..Len(Templates) |-> template_ok(runs[k])]]
       IN IF railway
          THEN [h EXCEPT !.stack = <<"bootstrap_stop">>, !.pc = "stop_entry"]
          ELSE BootstrapRespond(h)

\* main.py lines 159-172: the handler starts the service when the controller is configured
CallBootstrap(p) ==
  /\ flow[p].pc = "idle"
  /\ flow' = [flow EXCEPT ![p] =
       IF RAILWAY_TOKEN /\ SERVICE_ID
       THEN [Begin("bootstrap") EXCEPT !.stack = <<"bootstrap_start">>, !.pc = "start_entry"]
       ELSE [Begin("bootstrap") EXCEPT !.pc = "bootstrap_client"]]
  /\ UNCHANGED <<service_state, RAILWAY_TOKEN, SERVICE_ID, clock, n8n_env, mgmt, remote>>

\* main.py lines 174-286: client = await _n8n_client() and what follows it
BootstrapClient(p) ==
  /\ flow[p].pc = "bootstrap_client"
  /\ \E runs \in TemplateRuns :
       flow' = [flow EXCEPT ![p] =
         bootstrap_step(flow[p], n8n_client(n8n_env), runs, RAILWAY_TOKEN /\ SERVICE_ID)]
  /\ UNCHANGED <<service_state, RAILWAY_TOKEN, SERVICE_ID, clock, n8n_env, mgmt, remote>>

InitBootstrap ==
  /\ service_state = InitServiceState
  /\ RAILWAY_TOKEN \in BOOLEAN
  /\ SERVICE_ID \in BOOLEAN
  /\ clock = 1
  /\ flow = [p \in Flows |-> IdleFlow]
  /\ n8n_env \in N8NEnvs
  /\ mgmt = IdleMgmt
  /\ remote = InitRemote

NextBootstrap ==
  \E p \in Flows :
    \/ Exclusive(p) /\ CallBootstrap(p)
    \/ Exclusive(p) /\ CallStop(p)
    \/ BootstrapClient(p)
    \/ StartEntry(p)
    \/ \E resp \in RailwayResponses : StartMutationResponse(p, resp)
    \/ \E first \in 1..(max_retries + 1) : StartupWait(p, first)
    \/ \E h \in HealthResponses : HealthPoll(p, h)
    \/ HealthSleep(p)
    \/ StopEntry(p)
    \/ \E resp \in RailwayResponses : StopMutationResponse(p, resp)
    \/ Finish(p)

SpecBootstrap == InitBootstrap /\ [][NextBootstrap]_vars

(* ------------------------------- claims -------------------------------- *)
\* the calls made by the current call of a caller that calls twice
CallTrace(f) == SubSeq(f.trace, f.mark + 1, Len(f.trace))

\* positions inside the try block of use_n8n_workflow, start_n8n included
InTry(f) ==
  f.pc \in {"start_entry", "start_mutation", "start_wait", "health_poll", "health_sleep",
            "invoke_post", "invoke_webhook", "invoke_finally"}

AttemptEvents == {"start_n8n", "serviceStart", "sleep_startup", "GET", "sleep3", "POST"}

\* C1: whatever the outcome of use_n8n_workflow(keep_alive=False) (start failed,
\* webhook answered, webhook HTTP error, webhook call raised), stop_n8n() is
\* called exactly once: not while the try block runs, and once by the time the
\* function is about to return or raise, after every start and webhook step.
C1_StopOnceAfterInvoke ==
  \A p \in Flows : LET f == flow[p] IN
    (f.op = "invoke" /\ ~f.keep_alive) =>
      /\ InTry(f) => Count(f.trace, "stop_n8n") = 0
      /\ f.pc \in {"invoke_exit", "done"} =>
           /\ Count(f.trace, "stop_n8n") = 1
           /\ \A j, k \in 1..Len(f.trace) :
                (f.trace[j] \in AttemptEvents /\ f.trace[k] = "stop_n8n") => j < k

C1_Witness ==
  \E p \in Flows : LET f == flow[p] IN
    /\ f.op = "invoke" /\ ~f.keep_alive /\ f.pc = "done"
    /\ f.webhook_resp = "http_error" /\ f.outcome.kind = "raise"
    /\ Count(f.trace, "stop_n8n") = 1 /\ Count(f.trace, "serviceStop") = 1

\* the exception use_n8n_workflow records for a failed webhook call
WebhookFailure(w) ==
  CASE w = "http_error"      -> "HTTPError"
    [] w = "transport_error" -> "ConnectionError"
    [] w = "invalid_json"    -> "JSONDecodeError"

\* C2: the result of use_n8n_workflow is decided by start_n8n and the webhook
\* call alone: the workflow response when both succeed, the start error when
\* start raised, the webhook error when the webhook call failed; this is so
\* whether the stop in the finally block succeeded, was skipped or raised.
C2_StopFailureNeverReplaces ==
  \A p \in Flows : LET f == flow[p] IN
    (f.op = "invoke" /\ f.pc = "done") =>
      IF f.start_status = "raised"
      THEN f.outcome = [kind |-> "raise", val |-> f.start_exc]
      ELSE IF f.webhook_resp = "ok"
      THEN f.outcome = [kind |-> "return", val |-> "json"]
      ELSE f.outcome = [kind |-> "raise", val |-> WebhookFailure(f.webhook_resp)]

C2_Witness ==
  \E p \in Flows : LET f == flow[p] IN
    /\ f.op = "invoke" /\ f.pc = "done"
    /\ f.webhook_resp = "ok" /\ f.stop_status = "raised"
    /\ f.outcome = [kind |-> "return", val |-> "json"]

\* C3: start_n8n() called while is_running is true returns already_running,
\* makes no remote call and leaves _service_state as it was; a start_n8n()
\* that follows a start_n8n() which returned started issues no second
\* serviceStart mutation.
C3_IdempotentStart ==
  \A p \in Flows : LET f == flow[p] IN
    /\ (f.op = "start" /\ f.pc = "done" /\ f.pre.is_running) =>
         /\ f.outcome = [kind |-> "return", val |-> "already_running"]
         /\ CallTrace(f) = <<"start_n8n">>
         /\ service_state = f.pre
    /\ (f.op = "start" /\ f.pc = "done"
          /\ f.prev = [fn |-> "start", kind |-> "return", val |-> "started"]) =>
         Count(f.trace, "serviceStart") = 1

C3_Witness ==
  \E p \in Flows : LET f == flow[p] IN
    /\ f.op = "start" /\ f.pc = "done"
    /\ f.prev = [fn |-> "start", kind |-> "return", val |-> "started"]
    /\ f.outcome.val = "already_running"
    /\ Count(f.trace, "start_n8n") = 2

\* C4: stop_n8n() called while is_running is false returns already_stopped,
\* makes no remote call and leaves _service_state as it was; a stop_n8n() that
\* follows a stop_n8n() which returned stopped issues no second serviceStop
\* mutation.
C4_IdempotentStop ==
  \A p \in Flows : LET f == flow[p] IN
    /\ (f.op = "stop" /\ f.pc = "done" /\ ~f.pre.is_running) =>
         /\ f.outcome = [kind |-> "return", val |-> "already_stopped"]
         /\ CallTrace(f) = <<"stop_n8n">>
         /\ service_state = f.pre
    /\ (f.op = "stop" /\ f.pc = "done"
          /\ f.prev = [fn |-> "stop", kind |-> "return", val |-> "stopped"]) =>
         Count(f.trace, "serviceStop") = 1

C4_Witness ==
  \E p \in Flows : LET f == flow[p] IN
    /\ f.op = "stop" /\ f.pc = "done"
    /\ f.prev = [fn |-> "stop", kind |-> "return", val |-> "stopped"]
    /\ f.outcome.val = "already_stopped"
    /\ Count(f.trace, "stop_n8n") = 2

\* C5: use_n8n_workflow(keep_alive=True) never calls stop_n8n(), and when its
\* start_n8n() did not raise, is_running is still true when it returns or raises.
C5_KeepAliveSuppressesStop ==
  \A p \in Flows : LET f == flow[p] IN
    (f.op = "invoke" /\ f.keep_alive) =>
      /\ Count(f.trace, "stop_n8n") = 0
      /\ (f.pc = "done" /\ f.start_status \in {"started", "already_running"}) =>
           service_state.is_running

C5_Witness ==
  \E p \in Flows : LET f == flow[p] IN
    /\ f.op = "invoke" /\ f.keep_alive /\ f.pc = "done"
    /\ f.start_status = "started" /\ f.outcome.kind = "raise"
    /\ service_state.is_running

\* C6: when start_n8n() raises inside use_n8n_workflow, no webhook POST is
\* sent and use_n8n_workflow raises the error start_n8n() raised.
C6_StartFailureAbortsInvoke ==
  \A p \in Flows : LET f == flow[p] IN
    (f.op = "invoke" /\ f.start_status = "raised") =>
      /\ Count(f.trace, "POST") = 0
      /\ f.pc = "done" => f.outcome = [kind |-> "raise", val |-> f.start_exc]

C6_Witness ==
  \E p \in Flows : LET f == flow[p] IN
    /\ f.op = "invoke" /\ f.pc = "done"
    /\ f.start_status = "raised" /\ f.start_resp = "graphql_errors"
    /\ f.outcome.kind = "raise"

\* the serviceStart mutation of this start_n8n() call failed: the configuration
\* is missing, or the POST was answered by anything but a clean 200
StartMutationFailed(f) ==
  \/ f.start_resp \in RailwayResponses \ {"ok"}
  \/ ~f.pre.is_running /\ (~RAILWAY_TOKEN \/ ~SERVICE_ID)

\* C7: a start_n8n() whose serviceStart mutation fails (missing configuration,
\* transport error or timeout, HTTP error status, GraphQL errors in a 200
\* response) raises, leaves is_running false and both timestamps as they
\* were, and makes no health poll.
C7_StartMutationFailure ==
  \A p \in Flows : LET f == flow[p] IN
    (f.op = "start" /\ f.pc = "done" /\ StartMutationFailed(f)) =>
      /\ f.outcome.kind = "raise"
      /\ ~service_state.is_running
      /\ service_state.last_started = f.pre.last_started
      /\ service_state.last_stopped = f.pre.last_stopped
      /\ Count(CallTrace(f), "GET") = 0

C7_Witness ==
  \E p \in Flows : LET f == flow[p] IN
    /\ f.op = "start" /\ f.pc = "done"
    /\ f.start_resp = "graphql_errors"
    /\ f.pre.last_started > 0 /\ clock > f.pre.last_started
    /\ f.outcome = [kind |-> "raise", val |-> "RailwayApiError"]

\* C8: a stop_n8n() whose serviceStop mutation fails raises and leaves
\* _service_state as it was (still running, last_stopped not updated), and a
\* stop_n8n() that follows it issues the serviceStop mutation again.
C8_StopFailureKeepsState ==
  \A p \in Flows : LET f == flow[p] IN
    /\ (f.op = "stop" /\ f.pc = "done" /\ f.stop_resp \in RailwayResponses \ {"ok"}) =>
         /\ f.outcome.kind = "raise"
         /\ service_state = f.pre
         /\ service_state.is_running
    /\ (f.op = "stop" /\ f.pc = "done" /\ f.prev.fn = "stop" /\ f.prev.kind = "raise") =>
         Count(CallTrace(f), "serviceStop") = 1

C8_Witness ==
  \E p \in Flows : LET f == flow[p] IN
    /\ f.op = "stop" /\ f.pc = "done"
    /\ f.prev.fn = "stop" /\ f.prev.kind = "raise"
    /\ Count(f.trace, "serviceStop") = 2
    /\ f.outcome = [kind |-> "return", val |-> "stopped"]

\* C9 as stated: in a batch scope that was entered, start_n8n() is called at
\* most once, stop_n8n() exactly once, and an exception of the body is what
\* the scope raises.
C9_Original ==
  \A p \in Flows : LET f == flow[p] IN
    (f.op = "batch" /\ f.pc = "done" /\ f.entered) =>
      /\ Count(f.trace, "start_n8n") <= 1
      /\ Count(f.trace, "stop_n8n") = 1
      /\ f.exc # NoneVal => f.outcome = [kind |-> "raise", val |-> f.exc]

\* positions of a batch flow between __enter__ and __exit__
InBatchBody(f) ==
  \/ f.pc \in {"batch_body", "invoke_post", "invoke_webhook", "invoke_finally", "invoke_exit"}
  \/ f.pc = "start_entry" /\ f.entered

\* C9: in a batch scope start_n8n() is called once at entry and once more by
\* every invocation that runs, but at most one serviceStart mutation is issued
\* and only by the call at entry; once the scope is entered stop_n8n() is not
\* called inside the body and is called exactly once at exit, after the last
\* invocation, also when an invocation raised; that exception is what the
\* scope raises, whether the stop at exit succeeded or failed.
C9_BatchWrapping ==
  \A p \in Flows : LET f == flow[p] IN
    f.op = "batch" =>
      /\ Count(f.trace, "serviceStart") <= 1
      /\ \A k \in 1..Len(f.trace) : f.trace[k] = "serviceStart" => k = 2
      /\ InBatchBody(f) => Count(f.trace, "stop_n8n") = 0
      /\ (f.pc = "done" /\ f.entered) =>
           /\ Count(f.trace, "start_n8n") = 1 + Count(f.trace, "POST")
           /\ Count(f.trace, "POST") = f.size - f.remaining
           /\ Count(f.trace, "stop_n8n") = 1
           /\ \A j, k \in 1..Len(f.trace) :
                (f.trace[j] \in AttemptEvents /\ f.trace[k] = "stop_n8n") => j < k
           /\ f.exc # NoneVal => f.outcome = [kind |-> "raise", val |-> f.exc]
           /\ f.exc = NoneVal => f.outcome.kind = "return"

C9_Witness ==
  \E p \in Flows : LET f == flow[p] IN
    /\ f.op = "batch" /\ f.pc = "done" /\ f.entered /\ ~f.catches
    /\ f.size = 2 /\ f.remaining = 0
    /\ f.exc = "HTTPError" /\ f.stop_status = "raised"
    /\ Count(f.trace, "start_n8n") = 3 /\ Count(f.trace, "serviceStart") = 1
    /\ f.outcome = [kind |-> "raise", val |-> "HTTPError"]

\* the number of health GETs a start makes when the first 200 comes at poll first
ExpectedPolls(first) == IF first <= max_retries THEN first ELSE max_retries

\* C10: after a successful serviceStart mutation start_n8n() polls until the
\* first 200: it makes as many GETs as the index of the first 200 response,
\* or max_retries if there is none among the first max_retries; with a 200 on
\* the first poll it makes one GET, returns started and is_running is true.
C10_HealthPollCount ==
  \A p \in Flows : LET f == flow[p] IN
    /\ f.start_status = "started" =>
         Count(f.trace, "GET") = ExpectedPolls(f.first_200)
    /\ (f.op = "start" /\ f.pc = "done" /\ f.start_resp = "ok") =>
         /\ f.outcome = [kind |-> "return", val |-> "started"]
         /\ service_state.is_running
         /\ f.first_200 = 1 => Count(f.trace, "GET") = 1

C10_Witness ==
  \E p \in Flows : LET f == flow[p] IN
    /\ f.op = "start" /\ f.pc = "done" /\ f.start_status = "started"
    /\ f.first_200 = 3 /\ Count(f.trace, "GET") = 3
    /\ Count(f.trace, "sleep3") = 1

\* positions of start_n8n between the answer to the mutation and the return
InHealthCheck(f) == f.pc \in {"start_wait", "health_poll", "health_sleep"}

\* C11: once the serviceStart mutation has succeeded, start_n8n() returns
\* started whatever the health polls answer, also when all max_retries polls
\* fail, and is_running is true when it returns; a use_n8n_workflow whose
\* start went that way goes on to send its webhook POST.
C11_HealthFailureDoesNotFailStart ==
  \A p \in Flows : LET f == flow[p] IN
    (f.start_resp = "ok" /\ ~InHealthCheck(f)) =>
      /\ f.op \in {"start", "invoke"} => f.start_status = "started"
      /\ f.op = "batch" => f.entered
      /\ (f.op = "start" /\ f.pc = "done") => service_state.is_running
      /\ (f.op = "invoke" /\ f.pc = "invoke_post") => service_state.is_running
      /\ (f.op = "invoke" /\ f.pc \in {"invoke_webhook", "invoke_finally", "invoke_exit", "done"}) =>
           Count(f.trace, "POST") = 1

C11_Witness ==
  \E p \in Flows : LET f == flow[p] IN
    /\ f.op = "invoke" /\ f.pc = "done" /\ f.start_resp = "ok"
    /\ f.first_200 = max_retries + 1
    /\ Count(f.trace, "GET") = max_retries /\ Count(f.trace, "sleep3") = max_retries - 1
    /\ f.start_status = "started" /\ Count(f.trace, "POST") = 1

\* C12: in start_n8n any two consecutive health polls are separated by the
\* 3-second wait, whichever way the earlier poll failed: no GET follows a GET
\* directly.
C12_PollsSpaced ==
  \A p \in Flows : LET f == flow[p] IN
    \A k \in 1..(Len(f.trace) - 1) : ~(f.trace[k] = "GET" /\ f.trace[k + 1] = "GET")

RemoteEvents == {"serviceStart", "serviceStop", "GET", "POST"}

\* C17: when RAILWAY_API_TOKEN or N8N_SERVICE_ID is not set, no request at all
\* is sent (control API, health endpoint, webhook), is_running stays false, and
\* start_n8n() and use_n8n_workflow() raise the configuration error.
C17_NotConfiguredNoNetwork ==
  (~RAILWAY_TOKEN \/ ~SERVICE_ID) =>
    /\ ~service_state.is_running
    /\ \A p \in Flows : LET f == flow[p] IN
         /\ \A k \in 1..Len(f.trace) : f.trace[k] \notin RemoteEvents
         /\ (f.pc = "done" /\ f.op \in {"start", "invoke"}) =>
              f.outcome = [kind |-> "raise", val |-> "ValueError"]

C17_Witness ==
  /\ RAILWAY_TOKEN /\ ~SERVICE_ID
  /\ \E p \in Flows : LET f == flow[p] IN
       /\ f.op = "invoke" /\ f.pc = "done" /\ ~f.keep_alive
       /\ f.trace = <<"start_n8n", "stop_n8n">>
       /\ f.outcome = [kind |-> "raise", val |-> "ValueError"]

\* the management call has ended and every answer it received was status
AllAnswers(m, status) ==
  /\ m.pc = "done" /\ Len(m.statuses) >= 1
  /\ \A k \in 1..Len(m.statuses) : m.statuses[k] = status

\* the value is one of the two envelopes {ok: true, data} and {ok: false, error}
IsEnvelope(o) == o.kind = "return" /\ o.val \in {"ok_envelope", "error_envelope", "not_configured"}

\* C13: a management call whose every attempt is answered 503 is attempted
\* exactly 3 times, with backoff waits of 1 then 2 units between the
\* attempts, and then returns an error envelope.
C13_RetryBound ==
  AllAnswers(mgmt, 503) =>
    /\ mgmt.attempts = 3
    /\ mgmt.waits = <<1, 2>>
    /\ mgmt.outcome = [kind |-> "return", val |-> "error_envelope"]

ClientErrors == {400, 401, 403, 404, 405}

\* C14: a management call answered with a 4xx status (400, 401, 403, 404, 405)
\* is attempted exactly once: the call has ended with that one answer, and no
\* backoff wait and no second request followed it.
C14_NoRetryOn4xx ==
  (Len(mgmt.statuses) >= 1 /\ mgmt.statuses[1] \in ClientErrors) =>
    /\ mgmt.pc = "done"
    /\ mgmt.attempts = 1
    /\ mgmt.waits = <<>>
    /\ Len(mgmt.statuses) = 1

C14_Witness ==
  /\ mgmt.pc = "done" /\ mgmt.via = "client" /\ mgmt.op = "get_workflow"
  /\ mgmt.statuses = <<404>> /\ mgmt.attempts = 1
  /\ mgmt.outcome = [kind |-> "raise", val |-> "N8NError"]

EnvelopeOps == ClientOps \ {"run_workflow_once"}

\* C15: every management-client operation (list/get/create/update/delete/
\* activate/deactivate workflow, list executions, list credentials) called on
\* a client ends by returning an envelope, {ok: true, data} or {ok: false,
\* error}, and never raises to its caller, whatever the server answered.
C15_NeverRaises ==
  (mgmt.pc = "done" /\ mgmt.via = "client" /\ mgmt.op \in EnvelopeOps /\ mgmt.attempts >= 1) =>
    IsEnvelope(mgmt.outcome)

\* C16: the scheme of a management request is fixed by the configuration:
\* basic auth when user and password are both set (also beside an API key),
\* else the API key headers when a key is set, else the call fails as not
\* configured without sending a request; no request is sent unauthenticated.
C16_AuthPrecedence ==
  (mgmt.pc = "done" /\ n8n_env.N8N_API_URL) =>
    /\ IF n8n_env.N8N_BASIC_AUTH_USER /\ n8n_env.N8N_BASIC_AUTH_PASSWORD
       THEN mgmt.attempts >= 1 /\ AuthScheme(mgmt.headers) = "basic"
       ELSE IF n8n_env.N8N_API_KEY
       THEN mgmt.attempts >= 1 /\ AuthScheme(mgmt.headers) = "api_key"
       ELSE mgmt.attempts = 0 /\ mgmt.outcome.val \in {"not_configured", "SystemExit"}
    /\ mgmt.attempts >= 1 => AuthScheme(mgmt.headers) # "none"

\* C18: nothing but the cached flag guards start_n8n: a call that makes its
\* check while is_running is false goes on to issue serviceStart whatever the
\* other request is doing, so two calls that both began while not-running
\* can both have a serviceStart mutation under way.
C18_StartCheckIgnoresOtherCalls ==
  [][\A p \in Flows :
       (/\ flow[p].pc = "start_entry" /\ flow'[p].pc # "start_entry"
        /\ ~service_state.is_running /\ RAILWAY_TOKEN /\ SERVICE_ID)
       => (flow'[p].pc = "start_mutation" /\ Count(flow'[p].trace, "serviceStart") = 1)]_vars

C18_Witness ==
  \E p, q \in Flows :
    /\ p # q
    /\ flow[p].op = "start" /\ flow[q].op = "start"
    /\ ~flow[p].pre.is_running /\ ~flow[q].pre.is_running
    /\ flow[p].pc = "start_mutation" /\ flow[q].pc = "start_mutation"
    /\ Count(flow[p].trace, "serviceStart") = 1 /\ Count(flow[q].trace, "serviceStart") = 1

\* C19: nothing but the cached flag guards stop_n8n: a call that makes its
\* check while is_running is true issues serviceStop whatever the other
\* request is doing, so the stop of one use_n8n_workflow(keep_alive=False) can
\* be under way while the other request's webhook call is still pending.
C19_StopCheckIgnoresOtherCalls ==
  [][\A p \in Flows :
       (/\ flow[p].pc = "stop_entry" /\ flow'[p].pc # "stop_entry"
        /\ service_state.is_running /\ RAILWAY_TOKEN /\ SERVICE_ID)
       => (flow'[p].pc = "stop_mutation" /\ Count(flow'[p].trace, "serviceStop") = 1)]_vars

C19_Witness ==
  \E p, q \in Flows :
    /\ p # q
    /\ flow[p].op = "invoke" /\ ~flow[p].keep_alive
    /\ flow[q].op = "invoke" /\ ~flow[q].keep_alive
    /\ flow[p].pc = "stop_mutation" /\ Count(flow[p].trace, "serviceStop") = 1
    /\ flow[q].pc = "invoke_webhook" /\ flow[q].webhook_resp = NoneVal

\* C20: a bootstrap request made with n8n configured attempts each of the
\* four templates whether or not the earlier ones failed, its response lists
\* one outcome per template, and its ok is true exactly when at least one
\* template succeeded.
C20_BootstrapAttemptsAll ==
  \A p \in Flows : LET f == flow[p] IN
    (f.op = "bootstrap" /\ f.pc = "done" /\ assert_n8n_ready(n8n_env)) =>
      /\ f.templates = Templates
      /\ Len(f.results) = Len(Templates)
      /\ f.resp_ok <=> \E k \in 1..Len(f.results) : f.results[k]

\* no remote call of the flow was answered with a failure
NoFailure(f) ==
  /\ f.start_resp \in {"ok", NoneVal} /\ f.stop_resp \in {"ok", NoneVal}
  /\ f.webhook_resp \in {"ok", NoneVal} /\ f.first_200 <= 1

\* C23: one use_n8n_workflow(keep_alive=False) begun while not running, with
\* the controller configured and every remote call answered with success,
\* issues one serviceStart, then the health poll, then one webhook POST, then
\* one serviceStop, in that order, and ends with is_running false.
C23_InvokeSequence ==
  \A p \in Flows : LET f == flow[p] IN
    (/\ f.op = "invoke" /\ ~f.keep_alive /\ f.pc = "done"
     /\ RAILWAY_TOKEN /\ SERVICE_ID /\ ~f.pre.is_running /\ NoFailure(f)) =>
      /\ f.trace = <<"start_n8n", "serviceStart", "sleep_startup", "GET",
                     "POST", "stop_n8n", "serviceStop">>
      /\ ~service_state.is_running
      /\ f.outcome = [kind |-> "return", val |-> "json"]

C23_Witness ==
  \E p \in Flows : LET f == flow[p] IN
    /\ f.op = "invoke" /\ ~f.keep_alive /\ f.pc = "done" /\ ~f.pre.is_running
    /\ f.start_resp = "ok" /\ f.webhook_resp = "ok" /\ f.stop_resp = "ok" /\ f.first_200 = 1
    /\ Count(f.trace, "serviceStart") = 1 /\ Count(f.trace, "serviceStop") = 1
    /\ ~service_state.is_running /\ service_state.last_stopped # 0

\* C28: with one caller at a time and a clock that never goes back,
\* is_running implies that last_started is set and is not before last_stopped;
\* last_stopped is set only if last_started is; and while the service is
\* marked stopped after a successful stop (nothing but a successful stop
\* clears a set flag, and nothing but a successful start sets it again),
\* last_stopped is not before last_started.
C28_TimestampOrder ==
  LET s == service_state IN
    /\ s.is_running => (s.last_started # 0 /\ s.last_started >= s.last_stopped)
    /\ s.last_stopped # 0 => s.last_started # 0
    /\ (~s.is_running /\ s.last_stopped # 0) => s.last_stopped >= s.last_started
    /\ \A p \in Flows :
         (flow[p].pc = "done" /\ flow[p].stop_resp = "ok") =>
           (~s.is_running /\ s.last_stopped # 0 /\ s.last_stopped >= s.last_started)

C28_Witness ==
  /\ service_state.is_running
  /\ service_state.last_stopped # 0
  /\ service_state.last_started > service_state.last_stopped
  /\ \E p \in Flows : flow[p].pc = "done" /\ flow[p].op = "start" /\ flow[p].start_resp = "ok"
                      /\ flow[p].prev.fn = "stop"

\* C29: with overlapping calls is_running goes from true to false only
\* through a successful serviceStop mutation; the failure path of one
\* start_n8n never clears the flag another start_n8n has set.
C29_OnlyStopClearsFlag ==
  [][(service_state.is_running /\ ~service_state'.is_running) =>
       \E p \in Flows : /\ flow[p].pc = "stop_mutation"
                        /\ flow'[p].stop_resp = "ok"]_vars

\* the events of the current call of start_n8n, stop_n8n or use_n8n_workflow
Busy(f) == f.pc \notin {"idle", "done"}

\* C30: every call of start_n8n, stop_n8n and use_n8n_workflow ends, and by
\* then start_n8n has made at most one serviceStart mutation, max_retries
\* health polls and max_retries - 1 three-second waits, stop_n8n at most one
\* serviceStop mutation, and use_n8n_workflow at most one start_n8n, one
\* webhook POST and one stop_n8n.
C30_BoundedTermination ==
  /\ [](\A p \in Flows : LET f == flow[p]
                            t == CallTrace(f) IN
          (f.op \in {"start", "stop", "invoke"}) =>
            /\ Count(t, "serviceStart") <= 1
            /\ Count(t, "GET") <= max_retries
            /\ Count(t, "sleep3") <= max_retries - 1
            /\ Count(t, "serviceStop") <= 1
            /\ Count(t, "start_n8n") <= 1
            /\ Count(t, "POST") <= 1
            /\ Count(t, "stop_n8n") <= 1)
  /\ \A p \in Flows : Busy(flow[p]) ~> (flow[p].pc = "done")

C30_Witness ==
  \E p \in Flows : LET f == flow[p] IN
    /\ f.op = "invoke" /\ f.pc = "done"
    /\ Count(f.trace, "serviceStart") = 1 /\ Count(f.trace, "GET") = max_retries
    /\ Count(f.trace, "sleep3") = max_retries - 1
    /\ Count(f.trace, "POST") = 1 /\ Count(f.trace, "serviceStop") = 1

\* C27: a bootstrap request that has called start_n8n() calls stop_n8n()
\* before it responds, on every return path, the early "n8n not configured"
\* return and the outer exception handler included.
C27_BootstrapStopsWhatItStarted ==
  \A p \in Flows : LET f == flow[p] IN
    (f.op = "bootstrap" /\ f.pc = "done" /\ Count(f.trace, "start_n8n") >= 1) =>
      Count(f.trace, "stop_n8n") >= 1

\* C24: _service_state starts not running with both timestamps unset and is
\* written only by steps of start_n8n and stop_n8n: get_service_status,
\* test_railway_connection with its railway_graphql call, and the webhook
\* call leave the three fields alone; last_started changes only when a
\* serviceStart mutation is answered with success, last_stopped only when a
\* serviceStop mutation is.
C24_StateFrame ==
  /\ service_state = InitServiceState
  /\ [][/\ service_state' # service_state =>
             \E p \in Flows : /\ flow[p].pc \in {"start_entry", "start_mutation", "stop_mutation"}
                              /\ flow'[p] # flow[p]
        /\ service_state'.last_started # service_state.last_started =>
             \E p \in Flows : flow[p].pc = "start_mutation" /\ flow'[p].start_resp = "ok"
        /\ service_state'.last_stopped # service_state.last_stopped =>
             \E p \in Flows : flow[p].pc = "stop_mutation" /\ flow'[p].stop_resp = "ok"]_vars

C24_Witness ==
  \E p \in Flows : LET f == flow[p] IN
    /\ f.op = "test_railway_connection" /\ f.pc = "done"
    /\ f.outcome = [kind |-> "return", val |-> "True"]
    /\ f.pre.is_running /\ f.pre.last_stopped # 0
    /\ service_state = f.pre

\* C26: with one caller at a time, as long as every mutation took effect at
\* Railway exactly when it reported success, is_running equals the remote
\* running state; a serviceStart that took effect while its response was
\* lost leaves is_running false with the service running, and a stop_n8n
\* called in that state returns already_stopped without a serviceStop mutation.
C26_FlagTracksRemote ==
  /\ ~remote.lost => service_state.is_running = remote.running
  /\ \A p \in Flows : LET f == flow[p] IN
       /\ (/\ f.op = "start" /\ f.pc = "done" /\ f.start_resp = "transport_error"
           /\ ~f.pre.is_running /\ remote.running /\ remote.lost) =>
            ~service_state.is_running
       /\ (f.op = "stop" /\ f.pc = "done" /\ ~f.pre.is_running) =>
            /\ Count(CallTrace(f), "serviceStop") = 0
            /\ f.outcome = [kind |-> "return", val |-> "already_stopped"]

C26_Witness ==
  /\ remote.running /\ remote.lost /\ ~service_state.is_running
  /\ service_state.last_started = 0
  /\ \E p \in Flows : LET f == flow[p] IN
       /\ f.op = "stop" /\ f.pc = "done" /\ f.prev.fn = "start" /\ f.prev.kind = "raise"
       /\ f.outcome = [kind |-> "return", val |-> "already_stopped"]
       /\ Count(f.trace, "serviceStart") = 1 /\ Count(f.trace, "serviceStop") = 0

\* C25: once the batch endpoint has entered the batch scope it attempts every
\* listed workflow with keep_alive=True, also after earlier ones failed,
\* returns one result entry per workflow, answers ok = true exactly when at
\* least one workflow succeeded (ok = false for an empty list), and calls
\* stop_n8n exactly once, after the last workflow.
C25_BatchEndpoint ==
  \A p \in Flows : LET f == flow[p] IN
    (f.op = "batch_endpoint" /\ f.entered) =>
      /\ Len(f.results) = Count(f.trace, "POST") - (IF f.pc \in {"invoke_webhook", "invoke_finally", "invoke_exit"} THEN 1 ELSE 0)
      /\ f.size > f.remaining => f.keep_alive
      /\ f.pc = "done" =>
           /\ f.remaining = 0
           /\ Count(f.trace, "POST") = f.size
           /\ Len(f.results) = f.size
           /\ f.outcome = [kind |-> "return", val |-> "summary"]
           /\ f.resp_ok <=> \E k \in 1..Len(f.results) : f.results[k]
           /\ f.size = 0 => ~f.resp_ok
           /\ Count(f.trace, "stop_n8n") = 1
           /\ f.trace[Len(f.trace)] \in {"stop_n8n", "serviceStop"}
           /\ \A j, k \in 1..Len(f.trace) :
                (f.trace[j] = "POST" /\ f.trace[k] = "stop_n8n") => j < k

C25_Witness ==
  \E p \in Flows : LET f == flow[p] IN
    /\ f.op = "batch_endpoint" /\ f.pc = "done" /\ f.entered
    /\ f.size = MaxBatch /\ f.results[1] = FALSE /\ f.results[Len(f.results)] = TRUE
    /\ f.resp_ok /\ Count(f.trace, "stop_n8n") = 1

FacadeHandlers == {"health", "status", "orchestrate", "report"}

\* C22: every response of the handlers of main.py, on success and on every
\* error path, carries the key "ok".
C22_EveryResponseHasOk ==
  \A p \in Flows : LET f == flow[p] IN
    (f.op \in FacadeHandlers /\ f.pc = "done") => "ok" \in f.keys

\* the builder answered, every list_credentials request was answered 200 with a
\* JSON list, both names are set and exactly one of them is not on the server
OneCredentialMissing ==
  /\ mgmt.op = "build_wf_tg_to_gmail" /\ mgmt.pc = "done"
  /\ \A k \in 1..2 : mgmt.build.names[k] # ""
  /\ \A i \in 1..Len(mgmt.statuses) : mgmt.statuses[i] = 200 /\ mgmt.build.listed[i] = "json"
  /\ Cardinality({k \in 1..2 : mgmt.build.names[k] \notin mgmt.build.remote}) = 1

\* C21: with two required credential names of which one does not exist on the
\* server, building the workflow spec succeeds and the spec has its three nodes,
\* those of the credential that exists carrying it.
C21_PartialCredentialBuild ==
  OneCredentialMissing =>
    /\ mgmt.outcome.kind = "return"
    /\ Len(mgmt.build.nodes) = 3

====
